---- MODULE Spec2Model ----
(***************************************************************************)
(* cot_publisher: one publisher instance (async CotPublisher or the        *)
(* blocking bridge), its bounded mpsc queue, the records that hold         *)
(* producer clones, the publish calls in flight and the publisher task     *)
(* (multicast_publisher_task or takserver_publisher_task).                 *)
(***************************************************************************)
EXTENDS Naturals, Integers, Sequences, FiniteSets, TLC

\* ---------------------------------------------------------------- bounds
MaxItems   == 2   \* publish calls made over the life of the publisher
MaxCap     == 1   \* largest custom channel_capacity tried
MaxRecords == 1   \* records alive at the same time
MaxDigits  == 5   \* base-128 digits of the longest serialized message tried
MaxTicks   == 2   \* milliseconds the clock advances while one record is followed

\* lib.rs:65
BROADCAST_CHANNEL_SIZE == 1000

\* lib.rs:63-64
UDP_MAGIC == <<191, 1, 191>>
TCP_MAGIC == <<191>>

Items == 1..MaxItems

VARIABLES
    transport,      \* "multicast" | "takserver": which task was spawned
    frontend,       \* "async" (lib.rs CotPublisher) | "blocking" (blocking::CotPublisher)
    capacity,       \* mpsc::channel(capacity)
    queue,          \* ids of the items buffered in the mpsc channel, oldest first
    waiters,        \* ids of send() futures suspended on a full queue, oldest first
    call,           \* call[i]: state, checked flag and result of publish call i
    ack,            \* ack[i]: state of the oneshot acknowledgement slot of item i
    admitted,       \* history: ids in the order the queue accepted them
    taskPc,         \* position of the publisher task
    cur,            \* id of the item the task holds (0: none)
    taskResult,     \* value the task's future completed with ("none" while running)
    wlog,           \* history: every transport write attempt, [id, step, ok]
    sender,         \* TRUE while the handle owns broadcast_sender / cot_sender
    records,        \* number of live records bound to this publisher (sender clones)
    publish_task,   \* "Some" | "None": CotPublisher.publish_task ("Thread": the bridge's _thread)
    abortRequested, \* task.abort() was called and has not yet taken effect
    closedSeen,     \* history: recv() has returned None to the task
    joins,          \* history: times the JoinHandle was awaited by check_connected
    lastCheck,      \* history: the latest check_connected call, [fin, res, joined, reaped]
    dropAt,         \* history (SpecBridge): items accepted before the handle was dropped (-1: none)
    message_buffer, \* framing: the item in the task's hands, [id, len, encoded]
    response_sender,\* framing: TRUE when that item carries an acknowledgement slot
    framePc,        \* framing: position of the task inside the loop body
    sent,           \* framing: buffers handed to the transport for that item, [buf, ok]
    settings,       \* connection: the TakServerSetting and URL given to create_connection
    connPc,         \* connection: position inside create_connection
    roots,          \* connection: where root_certs came from, and whether it holds any
    verifier,       \* connection: server certificate verifier of the client config
    netlog,         \* connection: history of network operations, oldest first
    connResult,     \* connection: value create_connection returned ("none" before)
    cots,           \* records: cots[r], the CursorOnTarget object r, [live, data, publish_sender]
    pubq,           \* records: pubq[p], the items sent to the queue of publisher p, oldest first
    lastOp,         \* records: history, the latest operation on a record
    pair,           \* front ends: pair[fe], a publisher of front end fe fed the same events
    rec,            \* codec: the caller's record, with its value fields
    item,           \* codec: the snapshot of the record travelling in the queue
    now,            \* codec: the system clock, ms since the epoch (64 bits, 16-bit limbs)
    publishedAt,    \* codec: history, the clock when the item was published
    message,        \* codec: the TakMessage rpc_from_cot built from the item
    codecPc         \* codec: "idle" | "queued" | "encoded" | "panicked"

vars == <<transport, frontend, capacity, queue, waiters, call, ack, admitted,
          taskPc, cur, taskResult, wlog, sender, records, publish_task,
          abortRequested, closedSeen, joins, lastCheck, dropAt,
          message_buffer, response_sender, framePc, sent,
          settings, connPc, roots, verifier, netlog, connResult,
          cots, pubq, lastOp, pair,
          rec, item, now, publishedAt, message, codecPc>>

config  == <<transport, frontend, capacity>>
chanVars == <<queue, waiters, admitted>>
taskVars == <<taskPc, cur, taskResult, wlog, closedSeen>>
handleVars == <<sender, publish_task, abortRequested, joins, lastCheck, dropAt>>
publisherVars == <<config, chanVars, call, ack, taskVars, handleVars, records>>
wireVars == <<message_buffer, response_sender, framePc, sent>>
connVars == <<settings, connPc, roots, verifier, netlog, connResult>>
recVars == <<cots, pubq, lastOp>>
pairVars == <<pair>>
codecVars == <<rec, item, now, publishedAt, message, codecPc>>

\* ------------------------------------------------------------ helpers
Terminal == {"done", "cancelled"}

\* The task's future has completed or was dropped: the mpsc Receiver is gone.
rxClosed == taskPc \in Terminal

\* JoinHandle::is_finished()
is_finished == taskPc \in Terminal

\* Every mpsc Sender (the handle's and the records' clones) has been dropped.
allSendersDropped == ~sender /\ records = 0

InFlight == {i \in Items : call[i].state \in {"waiting", "awaitAck"}}

\* Variant of DropSlots: the unused oneshot::Sender is leaked, not dropped.
DropSlots_leaked(a, S) == a

\* Dropping a oneshot::Sender that was never used closes the slot.
DropSlots(a, S) ==
    [i \in Items |-> IF i \in S /\ a[i] = "pending" THEN "dropped" ELSE a[i]]

SeqToSet(s) == {s[k] : k \in 1..Len(s)}

NoCheck == [fin |-> FALSE, res |-> "none", joined |-> FALSE, reaped |-> FALSE]

\* No item in the task's hands.
NoBuffer == [id |-> 0, len |-> <<>>, encoded |-> FALSE]

\* The framing of items is followed in SpecWire only.
WireIdle ==
    /\ message_buffer = NoBuffer
    /\ response_sender = FALSE
    /\ framePc = "idle"
    /\ sent = <<>>

\* No settings looked at; no root certificates obtained.
NoSettings ==
    [url |-> "unset", server_cert |-> "unset", tls |-> FALSE,
     client_credentials |-> "None", root_cert |-> "None",
     ignore_invalid |-> FALSE, verify_hostname |-> FALSE, auto_reconnect |-> FALSE]
NoRoots == [from |-> "unset", any |-> FALSE]

\* The steps of create_connection are followed in SpecConn only.
ConnIdle ==
    /\ connPc = "idle"
    /\ roots = NoRoots
    /\ verifier = "unset"
    /\ netlog = <<>>
    /\ connResult = "none"

\* Two publisher instances, to tell to which one a record is bound.
Pubs == {"P", "Q"}

\* Record objects that may exist at the same time: beside the records bound
\* at the same time, a clone and a copy made of it.
CotIds == 1..(MaxRecords + 2)

NoCot == [live |-> FALSE, data |-> "none", publish_sender |-> "None"]
NoOp == [op |-> "none", pub |-> "None", src |-> 0, dst |-> 0, res |-> "none"]

\* Single records are followed in SpecRecords only.
RecIdle ==
    /\ cots = [r \in CotIds |-> NoCot]
    /\ pubq = [p \in Pubs |-> <<>>]
    /\ lastOp = NoOp

\* One publisher of the pair right after construction.
NewPublisher ==
    [queue |-> <<>>, waiters |-> <<>>,
     call |-> [i \in Items |-> [state |-> "idle", checked |-> FALSE, res |-> "none"]],
     ack |-> [i \in Items |-> "none"],
     admitted |-> <<>>, taskPc |-> "init", cur |-> 0, taskResult |-> "none",
     wlog |-> <<>>]

FrontEnds == {"async", "blocking"}

\* The two front ends are run side by side in SpecPair only.
PairIdle == pair = [fe \in FrontEnds |-> NewPublisher]

\* Option<T>: Absent(d) is None (d fills the unused place), Some(v) is Some(v).
Some(v) == [some |-> TRUE, v |-> v]
Absent(d) == [some |-> FALSE, v |-> d]

\* A u64 as four 16-bit limbs, least significant first.
U64(a, b, c, d) == <<a, b, c, d>>
U64Zero == U64(0, 0, 0, 0)

NoPosition == [lat |-> 0, lng |-> 0, hae |-> 0, ce |-> 0, le |-> 0]
NoContact == [endpoint |-> "", callsign |-> ""]
NoPrecision == [altsrc |-> "", geopointsrc |-> ""]

\* #[derive(Default)] for CursorOnTarget, value fields only.
DefaultCot ==
    [stale_time_ms |-> U64Zero, uid |-> "", type |-> "",
     contact |-> Absent(NoContact), xml_detail |-> Absent(""),
     position |-> Absent(NoPosition), precision_location |-> Absent(NoPrecision)]

\* No message built yet.
NoMessage ==
    [min_proto_version |-> 0, max_proto_version |-> 0, contact_uid |-> "",
     type |-> "", uid |-> "",
     send_time |-> U64Zero, start_time |-> U64Zero, stale_time |-> U64Zero,
     lat |-> 0, lon |-> 0, hae |-> 0, ce |-> 0, le |-> 0,
     xml_detail |-> "", contact |-> Absent(NoContact),
     precision_location |-> Absent(NoPrecision)]

\* The conversion of records is followed in SpecCodec only.
CodecIdle ==
    /\ rec = DefaultCot
    /\ item = DefaultCot
    /\ now = U64Zero
    /\ publishedAt = U64Zero
    /\ message = NoMessage
    /\ codecPc = "idle"

\* A publisher right after construction: empty queue, task at its first statement.
Fresh ==
    /\ queue = <<>>
    /\ waiters = <<>>
    /\ call = [i \in Items |-> [state |-> "idle", checked |-> FALSE, res |-> "none"]]
    /\ ack = [i \in Items |-> "none"]
    /\ admitted = <<>>
    /\ taskPc = "init"
    /\ cur = 0
    /\ taskResult = "none"
    /\ wlog = <<>>
    /\ sender = TRUE
    /\ records = 0
    /\ publish_task = IF frontend = "async" THEN "Some" ELSE "Thread"
    /\ abortRequested = FALSE
    /\ closedSeen = FALSE
    /\ joins = 0
    /\ lastCheck = NoCheck
    /\ dropAt = -1

\* ---------------------------------------------------------------- Init
\* Of the TakServerSetting handed to new_takserver only auto_reconnect is kept
\* here: what the other fields decide is the outcome of takserver_connect.
Init ==
    /\ transport \in {"multicast", "takserver"}
    /\ frontend \in {"async", "blocking"}
    /\ capacity \in (1..MaxCap) \cup {BROADCAST_CHANNEL_SIZE}
    /\ settings \in
          {[NoSettings EXCEPT !.auto_reconnect = b] :
              b \in IF transport = "takserver" THEN BOOLEAN ELSE {FALSE}}
    /\ Fresh
    /\ WireIdle
    /\ ConnIdle
    /\ RecIdle
    /\ PairIdle
    /\ CodecIdle

\* ------------------------------------------------- producers (records)
\* CotPublisher::create_cot / copy_cot: a new record holding a clone of the sender.
create_cot ==
    /\ sender
    /\ records < MaxRecords
    /\ records' = records + 1
    /\ UNCHANGED <<wireVars, connVars, recVars, pairVars, codecVars, config, chanVars, call, ack, taskVars, handleVars>>

\* A record is dropped by its owner; a publish future in flight borrows its record.
drop_record ==
    /\ records > 0
    /\ InFlight = {} \/ records > 1
    /\ records' = records - 1
    /\ UNCHANGED <<wireVars, connVars, recVars, pairVars, codecVars, config, chanVars, call, ack, taskVars, handleVars>>

\* Variant of send_outcome: the channel is unbounded, every send is accepted at once.
send_outcome_unbounded(closed, qlen, nwait, cap) ==
    IF closed THEN "closed" ELSE "admit"

\* Variant of send_outcome: a send never notices that the receiver is gone.
send_outcome_ignores_closed(closed, qlen, nwait, cap) ==
    IF qlen < cap /\ nwait = 0 THEN "admit" ELSE "wait"

\* mpsc::Sender::send / blocking_send: fail when the receiver is gone, take a
\* permit when one is free, otherwise suspend behind the earlier waiters.
send_outcome(closed, qlen, nwait, cap) ==
    IF closed THEN "closed"
    ELSE IF qlen < cap /\ nwait = 0 THEN "admit"
    ELSE "wait"

Returned(checked, r) == [state |-> "returned", checked |-> checked, res |-> r]

\* The queue accepts item i of a call: publish returns Ok, publish_checked
\* goes on to await its acknowledgement.
Accept(i, checked) ==
    /\ queue' = Append(queue, i)
    /\ admitted' = Append(admitted, i)
    /\ call' = [call EXCEPT ![i] =
                   IF checked
                   THEN [state |-> "awaitAck", checked |-> TRUE, res |-> "none"]
                   ELSE Returned(FALSE, "Ok")]

\* CursorOnTarget::publish, publish_checked, blocking_publish,
\* blocking_publish_checked up to the first suspension of send(). Calls are
\* numbered in the order they start.
publish(i, checked) ==
    /\ call[i].state = "idle"
    /\ \A j \in Items : j < i => call[j].state # "idle"
    /\ records > 0
    /\ LET o == send_outcome(rxClosed, Len(queue), Len(waiters), capacity) IN
       \/ /\ o = "closed"
          /\ call' = [call EXCEPT ![i] = Returned(checked, "SendError_closed")]
          /\ UNCHANGED <<ack, chanVars>>
       \/ /\ o = "admit"
          /\ Accept(i, checked)
          /\ ack' = [ack EXCEPT ![i] = IF checked THEN "pending" ELSE "none"]
          /\ UNCHANGED waiters
       \/ /\ o = "wait"
          /\ waiters' = Append(waiters, i)
          /\ call' = [call EXCEPT ![i] =
                         [state |-> "waiting", checked |-> checked, res |-> "none"]]
          /\ ack' = [ack EXCEPT ![i] = IF checked THEN "pending" ELSE "none"]
          /\ UNCHANGED <<queue, admitted>>
    /\ UNCHANGED <<wireVars, connVars, recVars, pairVars, codecVars, config, taskVars, handleVars, records>>

\* Variant of send_admit: the permit the task releases is not handed to the
\* suspended send, which is never woken while the receiver lives.
send_admit_no_wakeup(i) ==
    /\ waiters # <<>>
    /\ i = Head(waiters)
    /\ FALSE
    /\ UNCHANGED vars

\* A suspended send() gets the permit the task released.
send_admit(i) ==
    /\ waiters # <<>>
    /\ i = Head(waiters)
    /\ ~rxClosed
    /\ Len(queue) < capacity
    /\ waiters' = Tail(waiters)
    /\ Accept(i, call[i].checked)
    /\ UNCHANGED <<wireVars, connVars, recVars, pairVars, codecVars, config, ack, taskVars, handleVars, records>>

\* A suspended send() is woken because the receiver was dropped.
send_closed(i) ==
    /\ call[i].state = "waiting"
    /\ rxClosed
    /\ waiters' = SelectSeq(waiters, LAMBDA x : x # i)
    /\ call' = [call EXCEPT ![i] = Returned(call[i].checked, "SendError_closed")]
    /\ ack' = [ack EXCEPT ![i] = "none"]
    /\ UNCHANGED <<wireVars, connVars, recVars, pairVars, codecVars, config, queue, admitted, taskVars, handleVars, records>>

\* Variant of checked_result: the value carried by the slot is not looked at.
checked_result_ignores_inner(slot) ==
    CASE slot \in {"ok", "err"} -> "Ok"
      [] OTHER -> "SendError_recv"

\* What response_receiver.await yields to publish_checked.
checked_result(slot) ==
    CASE slot = "ok" -> "Ok"
      [] slot = "err" -> "SendError_write"
      [] OTHER -> "SendError_recv"

\* Variant of slot_settled: the slot is polled once instead of awaited.
slot_settled_no_wait(slot) == TRUE

\* response_receiver.await / blocking_recv() completes: a value was sent or
\* the oneshot sender was dropped.
slot_settled(slot) == slot \in {"ok", "err", "dropped"}

\* publish_checked / blocking_publish_checked return once the slot is settled.
publish_checked_return(i) ==
    /\ call[i].state = "awaitAck"
    /\ slot_settled(ack[i])
    /\ call' = [call EXCEPT ![i] = Returned(TRUE, checked_result(ack[i]))]
    /\ UNCHANGED <<wireVars, connVars, recVars, pairVars, codecVars, config, chanVars, ack, taskVars, handleVars, records>>

\* ------------------------------------------------------ publisher task
Entry(id, step, ok) == [id |-> id, step |-> step, ok |-> ok]

\* Variant of TaskEnds: the error is noted but not returned, the task serves on.
TaskEnds_serves_on(res, a) ==
    /\ taskPc' = "recv"
    /\ taskResult' = res
    /\ cur' = 0
    /\ queue' = queue
    /\ ack' = a

\* The task's future returns Err(res): its locals, the Receiver with every
\* buffered item among them, are dropped. a: the slots as the task leaves them.
TaskEnds(res, a) ==
    /\ taskPc' = "done"
    /\ taskResult' = res
    /\ cur' = 0
    /\ queue' = <<>>
    /\ ack' = DropSlots(a, SeqToSet(queue))

\* multicast_publisher_task: UdpSocket::bind and set_broadcast.
multicast_init(outcome) ==
    /\ transport = "multicast"
    /\ taskPc = "init"
    /\ IF outcome = "ok"
       THEN /\ taskPc' = "recv"
            /\ UNCHANGED <<cur, taskResult, queue, ack>>
       ELSE TaskEnds(outcome, ack)
    /\ UNCHANGED <<wireVars, connVars, recVars, pairVars, codecVars, config, waiters, admitted, call, wlog, closedSeen,
                   handleVars, records>>

\* Variant of after_connect: the protocol-change message and the delay are skipped.
after_connect_no_handshake == "recv"

\* takserver_publisher_task: what follows a successful create_connection.
after_connect == "handshake"

\* Variant of takserver_connect: with auto_reconnect set, a task that has
\* ended opens the destination again.
takserver_connect_again(ok) ==
    /\ transport = "takserver"
    /\ taskPc = "init" \/ (taskPc = "done" /\ settings.auto_reconnect)
    /\ IF ok
       THEN /\ taskPc' = after_connect
            /\ UNCHANGED <<cur, taskResult, queue, ack>>
       ELSE TaskEnds("SendError_connect", ack)
    /\ UNCHANGED <<wireVars, connVars, recVars, pairVars, codecVars, config, waiters, admitted, call, wlog, closedSeen,
                   handleVars, records>>

\* takserver_publisher_task: connection::create_connection.
takserver_connect(ok) ==
    /\ transport = "takserver"
    /\ taskPc = "init"
    /\ IF ok
       THEN /\ taskPc' = after_connect
            /\ UNCHANGED <<cur, taskResult, queue, ack>>
       ELSE TaskEnds("SendError_connect", ack)
    /\ UNCHANGED <<wireVars, connVars, recVars, pairVars, codecVars, config, waiters, admitted, call, wlog, closedSeen,
                   handleVars, records>>

\* takserver_publisher_task: write_all(PROTOCOL_CHANGE).
takserver_handshake(ok) ==
    /\ taskPc = "handshake"
    /\ wlog' = Append(wlog, Entry(0, "handshake", ok))
    /\ IF ok
       THEN /\ taskPc' = "sleep"
            /\ UNCHANGED <<cur, taskResult, queue, ack>>
       ELSE TaskEnds("SendError_handshake", ack)
    /\ UNCHANGED <<wireVars, connVars, recVars, pairVars, codecVars, config, waiters, admitted, call, closedSeen, handleVars, records>>

\* takserver_publisher_task: sleep(300 ms).
takserver_sleep ==
    /\ taskPc = "sleep"
    /\ taskPc' = "recv"
    /\ UNCHANGED <<wireVars, connVars, recVars, pairVars, codecVars, config, chanVars, call, ack, cur, taskResult, wlog,
                   closedSeen, handleVars, records>>

\* Variant of recv_next: the newest buffered item is taken first.
recv_next_newest(q) == q[Len(q)]

\* receiver.recv(): the oldest buffered item.
recv_next(q) == Head(q)

\* First write step of an encoded item.
first_step == IF transport = "multicast" THEN "send_to" ELSE "magic"

\* Variant of recv_item: a failed encode is treated like a failed write, the
\* slot gets the error and the task returns.
recv_item_encode_fatal(encOk) ==
    /\ taskPc = "recv"
    /\ queue # <<>>
    /\ LET i == recv_next(queue) IN
       IF encOk
       THEN /\ queue' = SelectSeq(queue, LAMBDA x : x # i)
            /\ cur' = i
            /\ taskPc' = first_step
            /\ UNCHANGED <<wlog, ack, taskResult>>
       ELSE /\ wlog' = Append(wlog, Entry(i, "encode", FALSE))
            /\ TaskEnds("SendError_encode",
                        [ack EXCEPT ![i] = IF @ = "pending" THEN "err" ELSE @])
    /\ UNCHANGED <<wireVars, connVars, recVars, pairVars, codecVars, config, waiters, admitted, call, closedSeen,
                   handleVars, records>>

\* Variant of recv_item: recv() hands the item out but leaves it buffered, so
\* it is delivered again.
recv_item_peek(encOk) ==
    /\ taskPc = "recv"
    /\ queue # <<>>
    /\ LET i == recv_next(queue) IN
       /\ queue' = queue
       /\ IF encOk
          THEN /\ cur' = i
               /\ taskPc' = first_step
               /\ UNCHANGED <<wlog, ack>>
          ELSE /\ wlog' = Append(wlog, Entry(i, "encode", FALSE))
               /\ ack' = DropSlots(ack, {i})
               /\ UNCHANGED <<cur, taskPc>>
    /\ UNCHANGED <<wireVars, connVars, recVars, pairVars, codecVars, config, waiters, admitted, call, taskResult, closedSeen,
                   handleVars, records>>

\* Both tasks: recv() yields an item, rpc_from_cot and encode run on it; an
\* item that cannot be encoded is skipped (continue).
recv_item(encOk) ==
    /\ taskPc = "recv"
    /\ queue # <<>>
    /\ LET i == recv_next(queue) IN
       /\ queue' = SelectSeq(queue, LAMBDA x : x # i)
       /\ IF encOk
          THEN /\ cur' = i
               /\ taskPc' = first_step
               /\ UNCHANGED <<wlog, ack>>
          ELSE /\ wlog' = Append(wlog, Entry(i, "encode", FALSE))
               /\ ack' = DropSlots(ack, {i})
               /\ UNCHANGED <<cur, taskPc>>
    /\ UNCHANGED <<wireVars, connVars, recVars, pairVars, codecVars, config, waiters, admitted, call, taskResult, closedSeen,
                   handleVars, records>>

\* Variant of recv_closed: on None the loop is left and the task returns Ok(()).
recv_closed_returns_ok ==
    /\ taskPc = "recv"
    /\ queue = <<>>
    /\ allSendersDropped
    /\ closedSeen' = TRUE
    /\ taskPc' = "done"
    /\ taskResult' = "Ok"
    /\ UNCHANGED <<wireVars, connVars, recVars, pairVars, codecVars, config, chanVars, call, ack, cur, wlog,
                   handleVars, records>>

\* Both tasks: recv() yields None (queue closed and empty); `if let Some` does
\* not match and the loop starts over.
recv_closed ==
    /\ taskPc = "recv"
    /\ queue = <<>>
    /\ allSendersDropped
    /\ closedSeen' = TRUE
    /\ UNCHANGED <<wireVars, connVars, recVars, pairVars, codecVars, config, chanVars, call, ack, taskPc, cur, taskResult, wlog,
                   handleVars, records>>

\* multicast_publisher_task: what the task does with response_sender after send_to.
multicast_ack(slot, ok) ==
    IF slot = "pending" THEN (IF ok THEN "ok" ELSE "err") ELSE slot

\* multicast_publisher_task: send_to of the framed datagram, then the
\* acknowledgement; the loop continues whatever the result.
multicast_send_to(ok) ==
    /\ taskPc = "send_to"
    /\ wlog' = Append(wlog, Entry(cur, "datagram", ok))
    /\ ack' = [ack EXCEPT ![cur] = multicast_ack(ack[cur], ok)]
    /\ taskPc' = "recv"
    /\ cur' = 0
    /\ UNCHANGED <<wireVars, connVars, recVars, pairVars, codecVars, config, chanVars, call, taskResult, closedSeen, handleVars, records>>

\* Variant of takserver_returns: a failed write never ends the task.
takserver_returns_never(slot) == FALSE

\* takserver_publisher_task: `return Err(e)` sits inside
\* `if let Some(sender) = response_sender`.
takserver_returns(slot) == slot = "pending"

next_step(step) ==
    CASE step = "magic" -> "varint"
      [] step = "varint" -> "payload"
      [] step = "payload" -> "recv"

write_error(step) ==
    CASE step = "magic" -> "SendError_magic"
      [] step = "varint" -> "SendError_size"
      [] step = "payload" -> "SendError_data"

\* takserver_publisher_task: one of the three write_all calls of an item.
takserver_write(ok) ==
    /\ taskPc \in {"magic", "varint", "payload"}
    /\ wlog' = Append(wlog, Entry(cur, taskPc, ok))
    /\ IF ~ok /\ takserver_returns(ack[cur])
       THEN TaskEnds(write_error(taskPc), [ack EXCEPT ![cur] = "err"])
       ELSE /\ taskPc' = next_step(taskPc)
            /\ cur' = IF taskPc = "payload" THEN 0 ELSE cur
            /\ ack' = IF taskPc = "payload" THEN DropSlots(ack, {cur}) ELSE ack
            /\ UNCHANGED <<taskResult, queue>>
    /\ UNCHANGED <<wireVars, connVars, recVars, pairVars, codecVars, config, waiters, admitted, call, closedSeen, handleVars, records>>

\* JoinHandle::abort takes effect: the future is dropped at a yield point.
task_cancel ==
    /\ abortRequested
    /\ taskPc \notin Terminal
    /\ taskPc' = "cancelled"
    /\ taskResult' = "JoinError_cancelled"
    /\ cur' = 0
    /\ queue' = <<>>
    /\ ack' = DropSlots(ack, SeqToSet(queue) \cup {cur})
    /\ abortRequested' = FALSE
    /\ UNCHANGED <<wireVars, connVars, recVars, pairVars, codecVars, config, waiters, admitted, call, wlog, closedSeen,
                   sender, publish_task, joins, lastCheck, dropAt, records>>

\* ------------------------------------------------------ publisher handle
\* Variant of drop_CotPublisher: the sender is dropped, the task is not aborted.
drop_CotPublisher_no_abort ==
    /\ sender
    /\ sender' = FALSE
    /\ publish_task' = IF frontend = "async" THEN "None" ELSE publish_task
    /\ UNCHANGED dropAt
    /\ UNCHANGED <<wireVars, connVars, recVars, pairVars, codecVars, config, chanVars, call, ack, taskVars, joins, lastCheck,
                   records, abortRequested>>

\* impl Drop for CotPublisher (async); the blocking bridge has no Drop impl:
\* its sender is dropped and its thread detached.
drop_CotPublisher ==
    /\ sender
    /\ sender' = FALSE
    /\ IF frontend = "async"
       THEN /\ publish_task' = "None"
            /\ abortRequested' = (publish_task = "Some" /\ ~is_finished)
       ELSE UNCHANGED <<publish_task, abortRequested>>
    /\ UNCHANGED dropAt
    /\ UNCHANGED <<wireVars, connVars, recVars, pairVars, codecVars, config, chanVars, call, ack, taskVars, joins, lastCheck, records>>

\* Variant of check_connected_result: the is_finished test is missing.
check_connected_result_no_test(task, fin, result) ==
    IF task = "None" THEN "ConnectionError_already_completed" ELSE "Ok"

\* CotPublisher::check_connected: the value returned.
check_connected_result(task, fin, result) ==
    IF task = "None" THEN "ConnectionError_already_completed"
    ELSE IF ~fin THEN "Ok"
    ELSE IF result = "JoinError_cancelled" THEN "ConnectionError_join"
    ELSE "ConnectionError_unknown"

\* Variant of check_connected_joins: the handle is awaited in place, not taken.
check_connected_task_kept(task, fin) == task

\* CotPublisher::check_connected: publish_task after the call (take()).
check_connected_task(task, fin) ==
    IF task = "Some" /\ fin THEN "None" ELSE task

\* CotPublisher::check_connected.
check_connected ==
    /\ frontend = "async"
    /\ sender
    /\ LET joined == publish_task = "Some" /\ is_finished IN
       /\ lastCheck' =
              [fin |-> is_finished,
               res |-> check_connected_result(publish_task, is_finished, taskResult),
               joined |-> joined,
               reaped |-> joins > 0]
       /\ joins' = IF joined THEN joins + 1 ELSE joins
       /\ publish_task' = check_connected_task(publish_task, is_finished)
    /\ UNCHANGED <<wireVars, connVars, recVars, pairVars, codecVars, config, chanVars, call, ack, taskVars, sender, abortRequested,
                   dropAt, records>>

\* ---------------------------------------------------------------- Next
Next ==
    \/ create_cot
    \/ drop_record
    \/ \E i \in Items, checked \in BOOLEAN : publish(i, checked)
    \/ \E i \in Items : send_admit(i)
    \/ \E i \in Items : send_closed(i)
    \/ \E i \in Items : publish_checked_return(i)
    \/ \E o \in {"ok", "SendError_bind", "SendError_set_broadcast"} : multicast_init(o)
    \/ \E ok \in BOOLEAN : takserver_connect(ok)
    \/ \E ok \in BOOLEAN : takserver_handshake(ok)
    \/ takserver_sleep
    \/ \E encOk \in BOOLEAN : recv_item(encOk)
    \/ recv_closed
    \/ \E ok \in BOOLEAN : multicast_send_to(ok)
    \/ \E ok \in BOOLEAN : takserver_write(ok)
    \/ task_cancel
    \/ drop_CotPublisher
    \/ check_connected

Spec == Init /\ [][Next]_vars

\* An aborted task is dropped at its next yield point; the tasks yield at
\* every await that is not ready and, through tokio's cooperative budget,
\* even when every await is ready.
FairSpec == Spec /\ WF_vars(task_cancel)

\* Any step of the publisher task.
TaskStep ==
    \/ \E o \in {"ok", "SendError_bind", "SendError_set_broadcast"} : multicast_init(o)
    \/ \E ok \in BOOLEAN : takserver_connect(ok)
    \/ \E ok \in BOOLEAN : takserver_handshake(ok)
    \/ takserver_sleep
    \/ \E encOk \in BOOLEAN : recv_item(encOk)
    \/ \E ok \in BOOLEAN : multicast_send_to(ok)
    \/ \E ok \in BOOLEAN : takserver_write(ok)

\* A suspended caller is resumed: its send goes through or fails, or its
\* acknowledgement wait ends.
CallerStep ==
    \E i \in Items : send_admit(i) \/ send_closed(i) \/ publish_checked_return(i)

\* The runtime polls every task and every caller that can make progress, and
\* bind, connect, send_to and write_all return, with Ok or with Err.
\* The publisher without the caller's check_connected polls, which touch
\* neither the queue nor the task.
LiveNext ==
    \/ create_cot
    \/ drop_record
    \/ \E i \in Items, checked \in BOOLEAN : publish(i, checked)
    \/ CallerStep
    \/ TaskStep
    \/ recv_closed
    \/ task_cancel
    \/ drop_CotPublisher

\* Queues small enough to fill up; the flag no code reads is left unset.
LiveInit ==
    /\ Init
    /\ capacity <= MaxCap
    /\ ~settings.auto_reconnect

LiveSpec ==
    /\ LiveInit
    /\ [][LiveNext]_vars
    /\ WF_vars(task_cancel) /\ WF_vars(TaskStep) /\ WF_vars(CallerStep)

\* Variant of bridge_drop: dropping the handle also stops the thread's task,
\* as the async handle's Drop does.
bridge_drop_stops_task ==
    /\ sender
    /\ sender' = FALSE
    /\ dropAt' = Len(admitted)
    /\ taskPc' = "cancelled"
    /\ taskResult' = "JoinError_cancelled"
    /\ cur' = 0
    /\ queue' = <<>>
    /\ ack' = DropSlots(ack, SeqToSet(queue) \cup {cur})
    /\ UNCHANGED <<wireVars, connVars, recVars, pairVars, codecVars, config, waiters, admitted, call, wlog,
                   closedSeen, publish_task, abortRequested, joins, lastCheck, records>>

\* blocking::CotPublisher goes out of scope: it has no Drop impl, so its
\* fields are dropped: cot_sender, and _thread, which detaches the thread.
bridge_drop ==
    /\ sender
    /\ sender' = FALSE
    /\ dropAt' = Len(admitted)
    /\ UNCHANGED <<wireVars, connVars, recVars, pairVars, codecVars, config, chanVars, call, ack, taskVars,
                   publish_task, abortRequested, joins, lastCheck, records>>

\* The blocking bridge: the task runs on a thread of its own, there is no
\* check_connected and nothing aborts the task.
NextBridge ==
    \/ create_cot
    \/ drop_record
    \/ \E i \in Items, checked \in BOOLEAN : publish(i, checked)
    \/ CallerStep
    \/ TaskStep
    \/ recv_closed
    \/ bridge_drop

InitBridge ==
    /\ LiveInit
    /\ frontend = "blocking"

SpecBridge ==
    /\ InitBridge
    /\ [][NextBridge]_vars
    /\ WF_vars(TaskStep) /\ WF_vars(CallerStep)

\* Write steps of the two tasks.
WriteSteps == {"datagram", "magic", "varint", "payload"}
TakSteps == {"magic", "varint", "payload"}

\* ------------------------------------------------------------- framing
\* What the publisher task hands to its transport for one item.  A byte
\* count is a natural number written in base 128, least significant digit
\* first and without leading zero digits (<<>> is 0), so that message
\* lengths on both sides of 2^32 can be told apart; message_buffer.len()
\* is a usize.

\* Digits the lengths are built from: the largest fifth digit a u32 still
\* holds (15 * 2^28), the smallest it does not, and the largest digit.
DigitVals == {15, 16, 127}

RECURSIVE DigitSeqs(_)
DigitSeqs(n) ==
    IF n = 0 THEN {<<>>}
    ELSE LET S == DigitSeqs(n - 1) IN
         S \cup {Append(d, v) : d \in {t \in S : Len(t) = n - 1}, v \in DigitVals}

\* Lengths a serialized message may have.
Lengths == {d \in DigitSeqs(MaxDigits) : d = <<>> \/ d[Len(d)] # 0}

RECURSIVE Canon(_)
\* Leading zero digits removed.
Canon(d) ==
    IF d # <<>> /\ d[Len(d)] = 0 THEN Canon(SubSeq(d, 1, Len(d) - 1)) ELSE d

\* `message_buffer.len() as u32`: the low 32 bits, which are four groups of
\* seven bits and the low four bits of the fifth.
as_u32(n) ==
    Canon([k \in 1..(IF Len(n) < 5 THEN Len(n) ELSE 5) |->
              IF k = 5 THEN n[k] % 16 ELSE n[k]])

\* get_varint (write_u32_varint): seven bits per byte, least significant
\* group first, bit 7 set on every byte but the last.
get_varint(size) ==
    IF size = <<>> THEN <<0>>
    ELSE [k \in 1..Len(size) |-> IF k < Len(size) THEN size[k] + 128 ELSE size[k]]

\* A piece of a buffer: literal bytes, or the whole of an encoded message.
Lit(bytes) == [kind |-> "bytes", bytes |-> bytes, of |-> 0, len |-> <<>>]
Whole(m) == [kind |-> "message", bytes |-> <<>>, of |-> m.id, len |-> m.len]

\* Variant of udp_datagram: the stream magic is used for datagrams.
udp_datagram_tcp_magic(m) == <<Lit(TCP_MAGIC), Whole(m)>>

\* multicast_publisher_task: UDP_MAGIC.to_vec() with message_buffer appended.
udp_datagram(m) == <<Lit(UDP_MAGIC), Whole(m)>>

\* takserver_publisher_task: the argument of each of the three write_all calls.
tcp_chunk(step, m) ==
    CASE step = "magic" -> <<Lit(TCP_MAGIC)>>
      [] step = "varint" -> <<Lit(get_varint(as_u32(m.len)))>>
      [] step = "payload" -> <<Whole(m)>>

Attempt(buf, ok) == [buf |-> buf, ok |-> ok]

\* Both tasks: the next item is received and encoded into message_buffer;
\* an item that cannot be encoded is skipped (continue).
encode_message(len, slot, encOk) ==
    /\ framePc = "recv"
    /\ message_buffer.id < MaxItems
    /\ message_buffer' = [id |-> message_buffer.id + 1,
                          len |-> IF encOk THEN len ELSE <<>>,
                          encoded |-> encOk]
    /\ response_sender' = slot
    /\ sent' = <<>>
    /\ framePc' = IF encOk THEN first_step ELSE "end"
    /\ UNCHANGED <<publisherVars, connVars, recVars, pairVars, codecVars>>

\* multicast_publisher_task: one send_to per encoded item, whatever its result.
multicast_frame(ok) ==
    /\ framePc = "send_to"
    /\ sent' = Append(sent, Attempt(udp_datagram(message_buffer), ok))
    /\ framePc' = "end"
    /\ UNCHANGED <<message_buffer, response_sender, publisherVars, connVars, recVars, pairVars, codecVars>>

\* takserver_publisher_task: one of the three write_all calls of an item.
takserver_frame(ok) ==
    /\ framePc \in TakSteps
    /\ sent' = Append(sent, Attempt(tcp_chunk(framePc, message_buffer), ok))
    /\ framePc' = IF ~ok /\ takserver_returns(IF response_sender THEN "pending" ELSE "none")
                  THEN "returned"
                  ELSE IF framePc = "payload" THEN "end" ELSE next_step(framePc)
    /\ UNCHANGED <<message_buffer, response_sender, publisherVars, connVars, recVars, pairVars, codecVars>>

\* Both tasks: the loop body ends (or `continue`), its locals are dropped and
\* the task is back at receiver.recv().
next_iteration ==
    /\ framePc = "end"
    /\ framePc' = "recv"
    /\ message_buffer' = [NoBuffer EXCEPT !.id = message_buffer.id]
    /\ response_sender' = FALSE
    /\ sent' = <<>>
    /\ UNCHANGED <<publisherVars, connVars, recVars, pairVars, codecVars>>

InitWire ==
    /\ transport \in {"multicast", "takserver"}
    /\ frontend = "async"
    /\ capacity = BROADCAST_CHANNEL_SIZE
    /\ Fresh
    /\ settings = NoSettings
    /\ ConnIdle
    /\ RecIdle
    /\ PairIdle
    /\ CodecIdle
    /\ message_buffer = NoBuffer
    /\ response_sender = FALSE
    /\ framePc = "recv"
    /\ sent = <<>>

NextWire ==
    \/ \E len \in Lengths, slot \in BOOLEAN, encOk \in BOOLEAN :
          encode_message(len, slot, encOk)
    \/ \E ok \in BOOLEAN : multicast_frame(ok)
    \/ \E ok \in BOOLEAN : takserver_frame(ok)
    \/ next_iteration

SpecWire == InitWire /\ [][NextWire]_vars

\* ---------------------------------------------------------- connection
\* connection::create_connection, step by step.  A credential or certificate
\* source is known by what loading it yields: a root_cert source yields
\* certificates ("certs"), none at all ("empty": Source::None, or a PEM text
\* without a certificate) or an error ("unreadable"); client credentials come
\* with or without a root chain.  The server reached at the URL presents a
\* certificate that verifies against the configured roots ("trusted") or one
\* that does not, such as a self-signed one ("untrusted").
TakServerSettings ==
    [url : {"ok", "no_host", "no_port"},
     server_cert : {"trusted", "untrusted"},
     tls : BOOLEAN,
     client_credentials : {"None", "without_root", "with_root"},
     root_cert : {"None", "certs", "empty", "unreadable"},
     ignore_invalid : BOOLEAN,
     verify_hostname : BOOLEAN,
     auto_reconnect : BOOLEAN]

\* Variant of root_source: the chain of the credentials is preferred.
root_source_credentials_first(root_cert, client_credentials) ==
    IF client_credentials = "with_root" THEN "credentials"
    ELSE IF root_cert # "None" THEN "root_cert"
    ELSE "none"

\* The if / else-if / else that selects root_certs.
root_source(root_cert, client_credentials) ==
    IF root_cert # "None" THEN "root_cert"
    ELSE IF client_credentials = "with_root" THEN "credentials"
    ELSE "none"

Returns(res) ==
    /\ connResult' = res
    /\ connPc' = "done"

\* Host and port are taken from the URL, then TcpStream::connect; without
\* TLS the TCP stream is returned as it is.
tcp_connect(ok) ==
    /\ connPc = "start"
    /\ IF settings.url = "no_host"
       THEN Returns("Err_host_missing") /\ UNCHANGED netlog
       ELSE IF settings.url = "no_port"
       THEN Returns("Err_port_missing") /\ UNCHANGED netlog
       ELSE /\ netlog' = Append(netlog, "tcp_connect")
            /\ IF ~ok THEN Returns("Err_connect")
               ELSE IF ~settings.tls THEN Returns("Tcp")
               ELSE connPc' = "roots" /\ UNCHANGED connResult
    /\ UNCHANGED <<settings, roots, verifier, publisherVars, wireVars, recVars, pairVars, codecVars>>

\* root_certs is obtained and every certificate added to the root store.
load_roots(addOk) ==
    /\ connPc = "roots"
    /\ LET from == root_source(settings.root_cert, settings.client_credentials) IN
       IF from = "none"
       THEN Returns("Err_no_root_certificate") /\ UNCHANGED roots
       ELSE IF from = "root_cert" /\ settings.root_cert = "unreadable"
       THEN Returns("Err_load") /\ UNCHANGED roots
       ELSE /\ roots' = [from |-> from,
                         any |-> (from = "credentials" \/ settings.root_cert = "certs")]
            /\ IF roots'.any /\ ~addOk
               THEN Returns("Err_add_certificate")
               ELSE connPc' = "config" /\ UNCHANGED connResult
    /\ UNCHANGED <<settings, verifier, netlog, publisherVars, wireVars, recVars, pairVars, codecVars>>

\* The client config is built (with client authentication when credentials
\* are given, with the accept-anything verifier when ignore_invalid is set),
\* then the server name is parsed from the host.
build_config(outcome) ==
    /\ connPc = "config"
    /\ outcome = "Err_client_config" => settings.client_credentials # "None"
    /\ IF outcome = "ok"
       THEN /\ verifier' = IF settings.ignore_invalid THEN "accept_any" ELSE "root_store"
            /\ connPc' = "handshake"
            /\ UNCHANGED connResult
       ELSE /\ verifier' = IF outcome = "Err_client_config" THEN verifier
                           ELSE IF settings.ignore_invalid THEN "accept_any"
                           ELSE "root_store"
            /\ Returns(outcome)
    /\ UNCHANGED <<settings, roots, netlog, publisherVars, wireVars, recVars, pairVars, codecVars>>

\* The verifier of the client config accepts the server's certificate:
\* DangerousAcceptAnyServerCertVerifier accepts everything, the default
\* verifier what chains to a certificate of the root store.
cert_accepted(v, cert, store) ==
    v = "accept_any" \/ (cert = "trusted" /\ store.any)

\* connector.connect: the TLS handshake on the TCP stream.
tls_connect(ok) ==
    /\ connPc = "handshake"
    /\ netlog' = Append(netlog, "tls_handshake")
    /\ Returns(IF ok /\ cert_accepted(verifier, settings.server_cert, roots)
               THEN "Tls" ELSE "Err_handshake")
    /\ UNCHANGED <<settings, roots, verifier, publisherVars, wireVars, recVars, pairVars, codecVars>>

InitConn ==
    /\ transport = "takserver"
    /\ frontend = "async"
    /\ capacity = BROADCAST_CHANNEL_SIZE
    /\ Fresh
    /\ WireIdle
    /\ RecIdle
    /\ PairIdle
    /\ CodecIdle
    /\ settings \in TakServerSettings
    /\ connPc = "start"
    /\ roots = NoRoots
    /\ verifier = "unset"
    /\ netlog = <<>>
    /\ connResult = "none"

NextConn ==
    \/ \E ok \in BOOLEAN : tcp_connect(ok)
    \/ \E addOk \in BOOLEAN : load_roots(addOk)
    \/ \E outcome \in {"ok", "Err_client_config", "Err_server_name"} : build_config(outcome)
    \/ \E ok \in BOOLEAN : tls_connect(ok)

SpecConn == InitConn /\ [][NextConn]_vars

\* -------------------------------------------------------------- records
\* CursorOnTarget objects one by one, with the publishers P and Q alive and
\* their tasks serving: which queue producer a record holds, what publishing
\* it puts on which queue.  The value fields of a record (uid, type,
\* position, contact, detail, ...) are one value, data.
FieldVals == {"v1", "v2"}

\* Variant of clone: the clone shares the original's queue producer.
clone_keeps_sender(c) == c

\* impl Clone for CursorOnTarget: every value field, publish_sender: None.
clone(c) == [c EXCEPT !.publish_sender = "None"]

\* Variant of with_sender: a record that had a producer keeps it.
with_sender_ignored(c, s) == c

\* CursorOnTarget::with_sender.
with_sender(c, s) == [c EXCEPT !.publish_sender = s]

\* CursorOnTarget::new.
new(v, s) == [live |-> TRUE, data |-> v, publish_sender |-> s]

\* The first record object not in use; records are numbered as they appear.
FreeCot(r) ==
    /\ ~cots[r].live
    /\ \A q \in CotIds : q < r => cots[q].live

Op(op, p, src, dst, res) ==
    [op |-> op, pub |-> p, src |-> src, dst |-> dst, res |-> res]

\* CotPublisher::create_cot on publisher p.
cot_create(p, r, v) ==
    /\ FreeCot(r)
    /\ cots' = [cots EXCEPT ![r] = new(v, p)]
    /\ lastOp' = Op("create_cot", p, 0, r, "Ok")
    /\ UNCHANGED <<pubq, publisherVars, wireVars, connVars, pairVars, codecVars>>

\* CotPublisher::copy_cot on publisher p, of record src.
cot_copy(p, src, r) ==
    /\ cots[src].live
    /\ FreeCot(r)
    /\ cots' = [cots EXCEPT ![r] = with_sender(clone(cots[src]), p)]
    /\ lastOp' = Op("copy_cot", p, src, r, "Ok")
    /\ UNCHANGED <<pubq, publisherVars, wireVars, connVars, pairVars, codecVars>>

\* The owner of record src clones it.
cot_clone(src, r) ==
    /\ cots[src].live
    /\ FreeCot(r)
    /\ cots' = [cots EXCEPT ![r] = clone(cots[src])]
    /\ lastOp' = Op("clone", "None", src, r, "Ok")
    /\ UNCHANGED <<pubq, publisherVars, wireVars, connVars, pairVars, codecVars>>

\* A setter (set_position, set_contact, set_uid, ...) or a write to a public field.
cot_set(r, v) ==
    /\ cots[r].live
    /\ cots[r].data # v
    /\ cots' = [cots EXCEPT ![r].data = v]
    /\ lastOp' = Op("set", "None", r, r, "Ok")
    /\ UNCHANGED <<pubq, publisherVars, wireVars, connVars, pairVars, codecVars>>

\* CursorOnTarget::publish and its three siblings up to the queue: without a
\* producer the call fails, otherwise a clone of the record is sent on it.
cot_publish(r) ==
    /\ cots[r].live
    /\ Len(pubq["P"]) + Len(pubq["Q"]) < MaxItems
    /\ IF cots[r].publish_sender = "None"
       THEN /\ lastOp' = Op("publish", "None", r, 0, "SendError_sender_not_set")
            /\ UNCHANGED pubq
       ELSE /\ pubq' = [pubq EXCEPT ![cots[r].publish_sender] = Append(@, clone(cots[r]))]
            /\ lastOp' = Op("publish", cots[r].publish_sender, r, 0, "Ok")
    /\ UNCHANGED <<cots, publisherVars, wireVars, connVars, pairVars, codecVars>>

InitRecords ==
    /\ transport = "multicast"
    /\ frontend = "async"
    /\ capacity = BROADCAST_CHANNEL_SIZE
    /\ Fresh
    /\ settings = NoSettings
    /\ ConnIdle
    /\ WireIdle
    /\ RecIdle
    /\ PairIdle
    /\ CodecIdle

NextRecords ==
    \/ \E p \in Pubs, r \in CotIds, v \in FieldVals : cot_create(p, r, v)
    \/ \E p \in Pubs, src \in CotIds, r \in CotIds : cot_copy(p, src, r)
    \/ \E src \in CotIds, r \in CotIds : cot_clone(src, r)
    \/ \E r \in CotIds, v \in FieldVals : cot_set(r, v)
    \/ \E r \in CotIds : cot_publish(r)

SpecRecords == InitRecords /\ [][NextRecords]_vars

\* ------------------------------------------- the two front ends, side by side
\* A publisher built by lib.rs CotPublisher (task spawned on the caller's
\* runtime) and one built by blocking::CotPublisher (task run by block_on on a
\* thread of its own) are given the same calls and the same transport
\* outcomes, step by step. transport and capacity are the constructor's
\* arguments, the same for both.

\* The queue accepts item i of publisher s.
accepted(s, i, checked) ==
    [s EXCEPT !.queue = Append(@, i),
              !.admitted = Append(@, i),
              !.call[i] = IF checked
                          THEN [state |-> "awaitAck", checked |-> TRUE, res |-> "none"]
                          ELSE Returned(FALSE, "Ok")]

\* Sender::send polled once for item i: closed, accepted, or parked.
send_polled(s, i, checked) ==
    LET o == send_outcome(s.taskPc \in Terminal, Len(s.queue), Len(s.waiters), capacity)
        slot == IF checked THEN "pending" ELSE "none"
    IN  CASE o = "closed" -> [s EXCEPT !.call[i] = Returned(checked, "SendError_closed")]
          [] o = "admit" -> [accepted(s, i, checked) EXCEPT !.ack[i] = slot]
          [] o = "wait" ->
                [s EXCEPT !.waiters = Append(@, i),
                          !.call[i] = [state |-> "waiting", checked |-> checked,
                                       res |-> "none"],
                          !.ack[i] = slot]

\* CursorOnTarget::publish / publish_checked: publish_sender.send(..).await.
async_publish(s, i, checked) == send_polled(s, i, checked)

\* Variant of blocking_publish: try_send, a full queue is an error at once.
blocking_publish_try_send(s, i, checked) ==
    LET o == send_outcome(s.taskPc \in Terminal, Len(s.queue), Len(s.waiters), capacity)
    IN  IF o = "wait"
        THEN [s EXCEPT !.call[i] = Returned(checked, "SendError_full")]
        ELSE send_polled(s, i, checked)

\* CursorOnTarget::blocking_publish / blocking_publish_checked:
\* publish_sender.blocking_send(..), which parks the calling thread on send().
blocking_publish(s, i, checked) == send_polled(s, i, checked)

\* response_receiver.await (publish_checked).
async_ack(slot) == checked_result(slot)

\* response_receiver.blocking_recv() (blocking_publish_checked).
blocking_ack(slot) == checked_result(slot)

\* A parked send gets the permit the task released.
send_resumed(s) ==
    LET i == Head(s.waiters)
    IN  accepted([s EXCEPT !.waiters = Tail(@)], i, s.call[i].checked)

\* A parked send is woken because the receiver was dropped.
send_woken_closed(s, i) ==
    [s EXCEPT !.waiters = SelectSeq(@, LAMBDA x : x # i),
              !.call[i] = Returned(s.call[i].checked, "SendError_closed"),
              !.ack[i] = "none"]

\* The task function returns Err(res); its Receiver is dropped with it.
ended(s, res, a) ==
    [s EXCEPT !.taskPc = "done", !.taskResult = res, !.cur = 0, !.queue = <<>>,
              !.ack = DropSlots(a, SeqToSet(s.queue))]

\* One step of multicast_publisher_task / takserver_publisher_task, the same
\* function whichever front end started it; ok: outcome of the step
\* (bind, connect, write, or encode when an item is received).
task_step(s, ok) ==
    CASE s.taskPc = "init" ->
            IF ok
            THEN [s EXCEPT !.taskPc = IF transport = "multicast" THEN "recv"
                                      ELSE after_connect]
            ELSE ended(s, IF transport = "multicast" THEN "SendError_bind"
                          ELSE "SendError_connect", s.ack)
      [] s.taskPc = "handshake" ->
            LET t == [s EXCEPT !.wlog = Append(@, Entry(0, "handshake", ok))]
            IN  IF ok THEN [t EXCEPT !.taskPc = "sleep"]
                ELSE ended(t, "SendError_handshake", t.ack)
      [] s.taskPc = "sleep" -> [s EXCEPT !.taskPc = "recv"]
      [] s.taskPc = "recv" ->
            LET i == recv_next(s.queue)
                t == [s EXCEPT !.queue = SelectSeq(@, LAMBDA x : x # i)]
            IN  IF ok THEN [t EXCEPT !.cur = i, !.taskPc = first_step]
                ELSE [t EXCEPT !.wlog = Append(@, Entry(i, "encode", FALSE)),
                               !.ack = DropSlots(@, {i})]
      [] s.taskPc = "send_to" ->
            [s EXCEPT !.wlog = Append(@, Entry(s.cur, "datagram", ok)),
                      !.ack[s.cur] = multicast_ack(@, ok),
                      !.taskPc = "recv",
                      !.cur = 0]
      [] s.taskPc \in TakSteps ->
            LET t == [s EXCEPT !.wlog = Append(@, Entry(s.cur, s.taskPc, ok))]
            IN  IF ~ok /\ takserver_returns(s.ack[s.cur])
                THEN ended(t, write_error(s.taskPc), [s.ack EXCEPT ![s.cur] = "err"])
                ELSE [t EXCEPT !.taskPc = next_step(s.taskPc),
                               !.cur = IF s.taskPc = "payload" THEN 0 ELSE s.cur,
                               !.ack = IF s.taskPc = "payload"
                                       THEN DropSlots(@, {s.cur}) ELSE @]

\* The task of publisher s can take a step.
task_ready(s) ==
    /\ s.taskPc \notin Terminal
    /\ s.taskPc = "recv" => s.queue # <<>>

\* The same publish call is made on a record of each publisher.
pair_publish(i, checked) ==
    /\ \A fe \in FrontEnds :
          /\ pair[fe].call[i].state = "idle"
          /\ \A j \in Items : j < i => pair[fe].call[j].state # "idle"
    /\ pair' = [fe \in FrontEnds |->
                   IF fe = "async" THEN async_publish(pair[fe], i, checked)
                   ELSE blocking_publish(pair[fe], i, checked)]
    /\ UNCHANGED <<publisherVars, wireVars, connVars, recVars, codecVars>>

\* The oldest parked send of each publisher goes through.
pair_send_resumed ==
    /\ \A fe \in FrontEnds :
          /\ pair[fe].waiters # <<>>
          /\ pair[fe].taskPc \notin Terminal
          /\ Len(pair[fe].queue) < capacity
    /\ pair' = [fe \in FrontEnds |-> send_resumed(pair[fe])]
    /\ UNCHANGED <<publisherVars, wireVars, connVars, recVars, codecVars>>

\* The parked send of call i fails on each publisher: the task is gone.
pair_send_closed(i) ==
    /\ \A fe \in FrontEnds :
          /\ pair[fe].call[i].state = "waiting"
          /\ pair[fe].taskPc \in Terminal
    /\ pair' = [fe \in FrontEnds |-> send_woken_closed(pair[fe], i)]
    /\ UNCHANGED <<publisherVars, wireVars, connVars, recVars, codecVars>>

\* The checked call i returns on each publisher.
pair_checked_return(i) ==
    /\ \A fe \in FrontEnds :
          /\ pair[fe].call[i].state = "awaitAck"
          /\ pair[fe].ack[i] \in {"ok", "err", "dropped"}
    /\ pair' = [fe \in FrontEnds |->
                   [pair[fe] EXCEPT !.call[i] =
                       Returned(TRUE, IF fe = "async" THEN async_ack(pair[fe].ack[i])
                                      ELSE blocking_ack(pair[fe].ack[i]))]]
    /\ UNCHANGED <<publisherVars, wireVars, connVars, recVars, codecVars>>

\* The task of each publisher takes its next step, with the same outcome.
pair_task(ok) ==
    /\ \A fe \in FrontEnds : task_ready(pair[fe])
    /\ pair["async"].taskPc = "sleep" => ok
    /\ pair' = [fe \in FrontEnds |-> task_step(pair[fe], ok)]
    /\ UNCHANGED <<publisherVars, wireVars, connVars, recVars, codecVars>>

InitPair ==
    /\ transport \in {"multicast", "takserver"}
    /\ frontend = "async"
    /\ capacity \in (1..MaxCap) \cup {BROADCAST_CHANNEL_SIZE}
    /\ Fresh
    /\ settings = NoSettings
    /\ ConnIdle
    /\ WireIdle
    /\ RecIdle
    /\ CodecIdle
    /\ PairIdle

NextPair ==
    \/ \E i \in Items, checked \in BOOLEAN : pair_publish(i, checked)
    \/ pair_send_resumed
    \/ \E i \in Items : pair_send_closed(i)
    \/ \E i \in Items : pair_checked_return(i)
    \/ \E ok \in BOOLEAN : pair_task(ok)

SpecPair == InitPair /\ [][NextPair]_vars

\* ------------------------------------------------- records to messages
\* One record is followed from the caller's hands through the queue to
\* rpc_from_cot. Floating-point values are stood for by integers; access,
\* qos, opex and how are copied like type and are left out.

\* 2^16: a u64 is four limbs of 16 bits.
Limb == 65536

U64Max == U64(Limb - 1, Limb - 1, Limb - 1, Limb - 1)

\* u64 addition: the wrapped sum and whether it overflowed.
add64(a, b) ==
    LET s1 == a[1] + b[1]
        s2 == a[2] + b[2] + (s1 \div Limb)
        s3 == a[3] + b[3] + (s2 \div Limb)
        s4 == a[4] + b[4] + (s3 \div Limb)
    IN  [val |-> U64(s1 % Limb, s2 % Limb, s3 % Limb, s4 % Limb),
         overflow |-> s4 >= Limb]

\* a >= b on u64.
ge64(a, b) ==
    \/ a = b
    \/ \E k \in 1..4 : a[k] > b[k] /\ \A l \in (k + 1)..4 : a[l] = b[l]

\* The clock when the record is created, about 1.7 * 10^12 ms.
T0 == U64(Limb - 1, 0, 400, 0)

\* CursorOnTarget::new sets 60 * 1000; the field is public.
DefaultStale == U64(60000, 0, 0, 0)
StaleVals == {DefaultStale, U64Max}

Uids == {"u1", "u2"}
Strs == {Absent(""), Some("s")}
FullPosition == [lat |-> 51, lng |-> -2, hae |-> 100, ce |-> 5, le |-> 7]

\* CursorOnTarget::new, value fields.
new_cot(uid, type) ==
    [DefaultCot EXCEPT !.uid = uid, !.type = type, !.stale_time_ms = DefaultStale]

\* impl Clone for CursorOnTarget, value fields: each one is cloned.
clone_values(c) ==
    [stale_time_ms |-> c.stale_time_ms, uid |-> c.uid, type |-> c.type,
     contact |-> c.contact, xml_detail |-> c.xml_detail,
     position |-> c.position, precision_location |-> c.precision_location]

unwrap_or(o, d) == IF o.some THEN o.v ELSE d

\* CursorOnTarget::set_contact.
set_contact(c, callsign, endpoint) ==
    IF ~callsign.some /\ ~endpoint.some
    THEN [c EXCEPT !.contact = Absent(NoContact)]
    ELSE [c EXCEPT !.contact = Some([endpoint |-> unwrap_or(endpoint, ""),
                                     callsign |-> unwrap_or(callsign, "")])]

\* CursorOnTarget::set_xml_detail.
set_xml_detail(c, xml_detail) == [c EXCEPT !.xml_detail = xml_detail]

\* CursorOnTarget::set_position.
set_position(c, lat, lng) ==
    IF c.position.some
    THEN [c EXCEPT !.position.v.lat = lat, !.position.v.lng = lng]
    ELSE [c EXCEPT !.position = Some([lat |-> lat, lng |-> lng, hae |-> 0,
                                      ce |-> 0, le |-> 0])]

\* CursorOnTarget::set_position_extended.
set_position_extended(c, p) == [c EXCEPT !.position = Some(p)]

\* CursorOnTarget::set_precision_location.
set_precision_location(c, geopointsrc, altsrc) ==
    IF ~geopointsrc.some /\ ~altsrc.some
    THEN [c EXCEPT !.precision_location = Absent(NoPrecision)]
    ELSE [c EXCEPT !.precision_location =
                      Some([altsrc |-> unwrap_or(altsrc, ""),
                            geopointsrc |-> unwrap_or(geopointsrc, "")])]

\* CursorOnTarget::set_uid.
set_uid(c, uid) == [c EXCEPT !.uid = uid]

\* Variant of rpc_from_cot: latitude and longitude change places.
rpc_from_cot_swapped(cot, time) ==
    LET pos == unwrap_or(cot.position, NoPosition)
    IN  [min_proto_version |-> 2, max_proto_version |-> 2, contact_uid |-> cot.uid,
         type |-> cot.type, uid |-> cot.uid,
         send_time |-> time, start_time |-> time,
         stale_time |-> add64(time, cot.stale_time_ms).val,
         lat |-> pos.lng, lon |-> pos.lat, hae |-> pos.hae, ce |-> pos.ce, le |-> pos.le,
         xml_detail |-> unwrap_or(cot.xml_detail, ""),
         contact |-> cot.contact,
         precision_location |-> cot.precision_location]

\* Variant of rpc_from_cot: a record without contact gets an empty one.
rpc_from_cot_default_contact(cot, time) ==
    LET pos == unwrap_or(cot.position, NoPosition)
    IN  [min_proto_version |-> 2, max_proto_version |-> 2, contact_uid |-> cot.uid,
         type |-> cot.type, uid |-> cot.uid,
         send_time |-> time, start_time |-> time,
         stale_time |-> add64(time, cot.stale_time_ms).val,
         lat |-> pos.lat, lon |-> pos.lng, hae |-> pos.hae, ce |-> pos.ce, le |-> pos.le,
         xml_detail |-> unwrap_or(cot.xml_detail, ""),
         contact |-> Some(unwrap_or(cot.contact, NoContact)),
         precision_location |-> cot.precision_location]

\* rpc_from_cot with get_time() = time, when `time + cot.stale_time_ms` does
\* not panic: the sum is the wrapped one.
rpc_from_cot(cot, time) ==
    LET pos == unwrap_or(cot.position, NoPosition)
    IN  [min_proto_version |-> 2, max_proto_version |-> 2, contact_uid |-> cot.uid,
         type |-> cot.type, uid |-> cot.uid,
         send_time |-> time, start_time |-> time,
         stale_time |-> add64(time, cot.stale_time_ms).val,
         lat |-> pos.lat, lon |-> pos.lng, hae |-> pos.hae, ce |-> pos.ce, le |-> pos.le,
         xml_detail |-> unwrap_or(cot.xml_detail, ""),
         contact |-> IF cot.contact.some
                     THEN Some([endpoint |-> cot.contact.v.endpoint,
                                callsign |-> cot.contact.v.callsign])
                     ELSE Absent(NoContact),
         precision_location |->
             IF cot.precision_location.some
             THEN Some([altsrc |-> cot.precision_location.v.altsrc,
                        geopointsrc |-> cot.precision_location.v.geopointsrc])
             ELSE Absent(NoPrecision)]

\* Variant of queued_record: the queue holds a reference to the caller's record.
queued_record_shared == rec

\* What recv() hands to the task: the clone that publish moved into the queue.
queued_record == item

\* The caller changes the record through one of its setters.
codec_set ==
    /\ codecPc # "panicked"
    /\ \E c \in {set_contact(rec, cs, ep) : cs \in Strs, ep \in {Absent("")}}
          \cup {set_xml_detail(rec, x) : x \in Strs}
          \cup {set_position(rec, 51, -2)}
          \cup {set_position_extended(rec, p) : p \in {NoPosition, FullPosition}}
          \cup {set_precision_location(rec, g, Absent("")) : g \in Strs}
          \cup {set_uid(rec, u) : u \in Uids} :
          /\ c # rec
          /\ rec' = c
    /\ UNCHANGED <<item, now, publishedAt, message, codecPc,
                   publisherVars, wireVars, connVars, recVars, pairVars>>

\* Time passes.
codec_tick ==
    /\ codecPc # "panicked"
    /\ now[1] = Limb - 1 \/ now[1] + 1 < MaxTicks
    /\ now' = add64(now, U64(1, 0, 0, 0)).val
    /\ UNCHANGED <<rec, item, publishedAt, message, codecPc,
                   publisherVars, wireVars, connVars, recVars, pairVars>>

\* CursorOnTarget::publish: self.clone() goes into the queue.
codec_publish ==
    /\ codecPc = "idle"
    /\ item' = clone_values(rec)
    /\ publishedAt' = now
    /\ codecPc' = "queued"
    /\ UNCHANGED <<rec, now, message,
                   publisherVars, wireVars, connVars, recVars, pairVars>>

\* The task receives the item and calls rpc_from_cot. When the u64 sum
\* overflows, a build with overflow checks panics and one without wraps.
codec_encode ==
    /\ codecPc = "queued"
    /\ \/ /\ message' = rpc_from_cot(queued_record, now)
          /\ codecPc' = "encoded"
       \/ /\ add64(now, queued_record.stale_time_ms).overflow
          /\ codecPc' = "panicked"
          /\ UNCHANGED message
    /\ UNCHANGED <<rec, item, now, publishedAt,
                   publisherVars, wireVars, connVars, recVars, pairVars>>

\* The task is through with the item; the record can be published again.
codec_next ==
    /\ codecPc = "encoded"
    /\ codecPc' = "idle"
    /\ item' = DefaultCot
    /\ publishedAt' = U64Zero
    /\ message' = NoMessage
    /\ UNCHANGED <<rec, now,
                   publisherVars, wireVars, connVars, recVars, pairVars>>

InitCodec ==
    /\ transport = "multicast"
    /\ frontend = "async"
    /\ capacity = BROADCAST_CHANNEL_SIZE
    /\ Fresh
    /\ settings = NoSettings
    /\ ConnIdle
    /\ WireIdle
    /\ RecIdle
    /\ PairIdle
    /\ rec \in {[new_cot("u1", "a-f-G") EXCEPT !.stale_time_ms = st] : st \in StaleVals}
    /\ item = DefaultCot
    /\ now = T0
    /\ publishedAt = U64Zero
    /\ message = NoMessage
    /\ codecPc = "idle"

NextCodec ==
    \/ codec_set
    \/ codec_tick
    \/ codec_publish
    \/ codec_encode
    \/ codec_next

SpecCodec == InitCodec /\ [][NextCodec]_vars

\* ------------------------------------------------------ claim vocabulary

\* Position of item i in the order of admission.
AdmitIdx(i) == CHOOSE k \in 1..Len(admitted) : admitted[k] = i

Wrote(i, step, ok) == \E k \in 1..Len(wlog) : wlog[k] = Entry(i, step, ok)

\* Every write step of item i was attempted and succeeded.
AllWritten(i) ==
    IF transport = "multicast"
    THEN Wrote(i, "datagram", TRUE)
    ELSE \A st \in TakSteps : Wrote(i, st, TRUE)

\* Entry k of the log is a failed write of a framed item.
FailedWrite(k) == wlog[k].step \in WriteSteps /\ ~wlog[k].ok

\* C1: items are written to the transport in the order the queue admitted
\* them: a write for an item admitted later never precedes a write for an
\* item admitted earlier.
C1_FifoWrites ==
    \A p, q \in 1..Len(wlog) :
        (/\ p < q
         /\ wlog[p].step \in WriteSteps
         /\ wlog[q].step \in WriteSteps
         /\ wlog[p].id # wlog[q].id)
        => AdmitIdx(wlog[p].id) < AdmitIdx(wlog[q].id)

\* Two items that sat in the queue together have both been written.
C1_Witness ==
    /\ capacity > 1
    /\ Len(admitted) = 2
    /\ \E p, q \in 1..Len(wlog) :
          /\ p < q
          /\ wlog[p].step \in WriteSteps /\ wlog[p].id = admitted[1]
          /\ wlog[q].step \in WriteSteps /\ wlog[q].id = admitted[2]

\* C2 (as claimed): on both transports a checked item whose write steps all
\* succeeded has its slot resolved with success and its publish_checked
\* returns Ok; and a checked publish returns Ok only if all was written.
C2_CheckedSuccess ==
    \A i \in Items :
        /\ (call[i].checked /\ AllWritten(i)) =>
              /\ ack[i] = "ok"
              /\ call[i].state = "returned" => call[i].res = "Ok"
        /\ (call[i].checked /\ call[i].res = "Ok") => AllWritten(i)

\* C3: on a TAK-server publisher a failed write of an item with a pending
\* checked publish resolves the slot with a send error and ends the task with
\* that step's error, and a liveness check made on a finished task never
\* reports Ok.
C3_CheckedWriteFailure ==
    transport = "takserver" =>
        /\ \A k \in 1..Len(wlog) :
              (FailedWrite(k) /\ call[wlog[k].id].checked) =>
                 /\ ack[wlog[k].id] = "err"
                 /\ call[wlog[k].id].state = "returned"
                       => call[wlog[k].id].res = "SendError_write"
                 /\ taskPc = "done"
                 /\ taskResult = write_error(wlog[k].step)
        /\ lastCheck.fin => lastCheck.res \notin {"Ok", "none"}

\* A checked publish got the send error of a failed write and a later
\* liveness check joined the finished task.
C3_Witness ==
    /\ transport = "takserver"
    /\ lastCheck.joined
    /\ \E k \in 1..Len(wlog) :
          /\ FailedWrite(k)
          /\ call[wlog[k].id].checked
          /\ call[wlog[k].id].res = "SendError_write"

\* C4 (as claimed): on a TAK-server publisher any failed write step ends the
\* task and is the last write attempted, with or without a slot.
C4_AnyWriteFailureEndsTask ==
    transport = "takserver" =>
        \A k \in 1..Len(wlog) :
            FailedWrite(k) => (taskPc \in Terminal /\ k = Len(wlog))

\* C5 (as claimed): on a multicast publisher a failed datagram send is
\* reported to the slot if present, ends the task and is the last send.
C5_SendFailureEndsTask ==
    transport = "multicast" =>
        \A k \in 1..Len(wlog) :
            FailedWrite(k) =>
               /\ call[wlog[k].id].checked => ack[wlog[k].id] = "err"
               /\ taskPc \in Terminal
               /\ k = Len(wlog)

C7_ClosureEndsTask ==
    (closedSeen /\ ~abortRequested) => taskPc \in Terminal

\* C8: check_connected returns Ok whenever the task has not finished, and
\* never Ok when it finds the task finished or has joined it before.
C8_OkIffRunning ==
    lastCheck.res # "none" =>
        /\ ~lastCheck.fin => lastCheck.res = "Ok"
        /\ lastCheck.fin => lastCheck.res # "Ok"
        /\ lastCheck.reaped => lastCheck.res # "Ok"

\* A liveness check was made on a finished task and returned an error.
C8_Witness ==
    /\ lastCheck.fin
    /\ lastCheck.res \notin {"Ok", "none"}

\* C9 (as claimed): the check_connected call that joins the task returns the
\* task's own result.
C9_JoinReturnsTaskResult ==
    lastCheck.joined => lastCheck.res = taskResult

\* C10: the task handle is joined at most once; every check_connected call
\* after the join returns "Task has already completed" and does not join.
C10_JoinOnce ==
    /\ joins <= 1
    /\ lastCheck.reaped =>
          /\ lastCheck.res = "ConnectionError_already_completed"
          /\ ~lastCheck.joined

\* A liveness check was made after an earlier one had joined the task.
C10_Witness ==
    /\ joins = 1
    /\ lastCheck.reaped

\* Results with which the task ends when opening the destination fails.
InitErrors == {"SendError_bind", "SendError_set_broadcast",
               "SendError_connect", "SendError_handshake"}

\* Some entry of the log belongs to a queue item (a write or a failed encode).
ItemLogged == \E k \in 1..Len(wlog) : wlog[k].id # 0

\* C11: when initialization fails the task has ended with that error, has
\* never taken an item nor attempted a framed write, and a liveness check
\* made on it returns an error.
C11_InitFailureEndsTask ==
    taskResult \in InitErrors =>
        /\ taskPc = "done"
        /\ cur = 0
        /\ ~ItemLogged
        /\ lastCheck.fin => lastCheck.res \notin {"Ok", "none"}

\* Initialization failed with an item already accepted by the queue, and a
\* liveness check has reported it.
C11_Witness ==
    /\ taskResult \in InitErrors
    /\ admitted # <<>>
    /\ lastCheck.joined

\* C12: once the task has terminated no step admits an item, and every
\* publish call that returns from then on returns the closed-queue SendError.
C12_SendAfterTermination ==
    [][rxClosed =>
          /\ admitted' = admitted
          /\ queue' = queue
          /\ \A i \in Items :
                (call[i].state # "returned" /\ call'[i].state = "returned"
                    /\ i \notin SeqToSet(admitted))
                => call'[i].res = "SendError_closed"]_vars

\* A publish made after the task had terminated (no sender ever waited on
\* this queue) returned the SendError.
C12_Witness ==
    /\ capacity = BROADCAST_CHANNEL_SIZE
    /\ rxClosed
    /\ \E i \in Items : call[i].res = "SendError_closed"

\* C13: a fire-and-forget publish returns Ok exactly when the queue accepted
\* the item, whatever became of its encoding and writes; a checked publish
\* whose item had a failed write, or was never accepted, does not return Ok.
C13_PublishResults ==
    \A i \in Items :
        call[i].state = "returned" =>
            /\ ~call[i].checked =>
                  /\ call[i].res = "Ok" <=> i \in SeqToSet(admitted)
                  /\ call[i].res \in {"Ok", "SendError_closed"}
            /\ (/\ call[i].checked
                /\ \/ i \notin SeqToSet(admitted)
                   \/ \E k \in 1..Len(wlog) : wlog[k].id = i /\ FailedWrite(k))
               => call[i].res # "Ok"

\* A fire-and-forget publish returned Ok and its write failed; a checked
\* publish returned the error of its failed write.
C13_Witness ==
    /\ \E i \in Items :
          /\ ~call[i].checked /\ call[i].res = "Ok"
          /\ \E k \in 1..Len(wlog) : wlog[k].id = i /\ FailedWrite(k)
    /\ \E i \in Items : call[i].checked /\ call[i].res = "SendError_write"

\* C14: a TAK-server task writes the handshake exactly once, as its first
\* write, and takes no item before the handshake and the delay are over; a
\* multicast task never writes it.
C14_HandshakeFirst ==
    /\ transport = "multicast" =>
          \A k \in 1..Len(wlog) : wlog[k].step # "handshake"
    /\ transport = "takserver" =>
          /\ \A k \in 1..Len(wlog) : wlog[k].step = "handshake" <=> k = 1
          /\ (ItemLogged \/ cur # 0 \/ taskPc \in {"recv"} \cup TakSteps)
                => (wlog # <<>> /\ wlog[1] = Entry(0, "handshake", TRUE))
          /\ taskPc \in {"init", "handshake", "sleep"} =>
                /\ cur = 0
                /\ ~ItemLogged
                /\ SeqToSet(admitted) \subseteq SeqToSet(queue)

\* The handshake is out, the delay is running and an item waits in the queue.
C14_Witness ==
    /\ transport = "takserver"
    /\ taskPc = "sleep"
    /\ queue # <<>>

\* The bytes of a complete varint: the last byte ends it, no earlier one does.
is_varint(b) ==
    /\ b # <<>>
    /\ b[Len(b)] < 128
    /\ \A k \in 1..(Len(b) - 1) : b[k] >= 128

\* Value of a varint (read_u32_varint), as a length.
read_varint(b) == Canon([k \in 1..Len(b) |-> b[k] % 128])

\* The item in hand was fully written: three writes, all of which succeeded.
FrameWritten ==
    /\ transport = "takserver"
    /\ Len(sent) = 3
    /\ \A k \in 1..3 : sent[k].ok

\* C15: for every item a TAK-server publisher has written, the stream
\* received the magic byte 0xBF, then a varint whose decoded value is the
\* exact length of the serialized message, one byte long when that length
\* is below 128, then the serialized message.
C15_TakFrame ==
    FrameWritten =>
        /\ sent[1].buf = <<Lit(<<191>>)>>
        /\ sent[2].buf[1].kind = "bytes"
        /\ is_varint(sent[2].buf[1].bytes)
        /\ read_varint(sent[2].buf[1].bytes) = message_buffer.len
        /\ Len(message_buffer.len) <= 1 => Len(sent[2].buf[1].bytes) = 1
        /\ sent[3].buf = <<Whole(message_buffer)>>

\* C16: a multicast publisher sends at most one datagram per item, exactly
\* one once an encoded item has been dealt with, and that datagram is the
\* bytes 0xBF 0x01 0xBF followed by the serialized message of that item alone.
C16_UdpDatagram ==
    transport = "multicast" =>
        /\ Len(sent) <= 1
        /\ (framePc = "end" /\ message_buffer.encoded) => Len(sent) = 1
        /\ \A k \in 1..Len(sent) :
              sent[k].buf = <<Lit(<<191, 1, 191>>), Whole(message_buffer)>>

C16_Witness ==
    /\ transport = "multicast"
    /\ framePc = "end"
    /\ message_buffer.id > 1
    /\ Len(message_buffer.len) > 1
    /\ Len(sent) = 1
    /\ sent[1].ok

\* The writes that succeeded: what has reached the transport.
BytesOut == SelectSeq(wlog, LAMBDA e : e.ok)

\* C17 (as claimed): once the async handle has been dropped no further write
\* reaches the transport.
C17_NoWriteAfterDrop ==
    [][(frontend = "async" /\ ~sender) => BytesOut' = BytesOut]_vars

\* A stopped task takes no further step and writes nothing.
StoppedStays == taskPc \in Terminal => (wlog' = wlog /\ taskPc' = taskPc)

\* C17 (amended): after the async handle is dropped the task eventually
\* stops, also with records alive; once it has stopped it stays stopped and
\* nothing more is written.
C17_DropStopsTask ==
    /\ (frontend = "async" /\ ~sender) ~> (taskPc \in Terminal)
    /\ [][StoppedStays]_vars

\* The handle was dropped while a record was alive and the task was cancelled.
C17_Witness ==
    /\ frontend = "async"
    /\ ~sender
    /\ records > 0
    /\ taskPc = "cancelled"

\* C18 (as claimed): with the blocking handle and every record dropped, the
\* background thread's task that finds the queue closed has terminated.
C18_BlockingThreadEnds ==
    (frontend = "blocking" /\ allSendersDropped /\ queue = <<>> /\ closedSeen)
        => taskPc \in Terminal

C20_RootPrecedence ==
    settings.tls =>
        /\ (connPc \in {"config", "handshake"} \/ connResult = "Tls")
              => roots.from \in {"root_cert", "credentials"}
        /\ roots.from = "root_cert" => settings.root_cert # "None"
        /\ roots.from = "credentials" =>
              /\ settings.root_cert = "None"
              /\ settings.client_credentials = "with_root"
        /\ (settings.root_cert = "None" /\ settings.client_credentials # "with_root") =>
              /\ connResult # "Tls"
              /\ roots.from = "unset"
              /\ (connPc = "done" /\ connResult \notin
                     {"Err_host_missing", "Err_port_missing", "Err_connect"})
                    => connResult = "Err_no_root_certificate"

C20_Witness ==
    /\ settings.tls
    /\ settings.root_cert = "certs"
    /\ settings.client_credentials = "with_root"
    /\ roots.from = "root_cert"
    /\ connResult = "Tls"

\* TLS is asked for and neither the root_cert source nor the credentials
\* supply a root certificate.
NoRootConfigured ==
    /\ settings.tls
    /\ settings.root_cert = "None"
    /\ settings.client_credentials # "with_root"

\* C21 (as claimed): with TLS enabled and no root certificate from either
\* source, create_connection fails before any network I/O: no TCP
\* connection is opened.
C21_RootErrorBeforeIo ==
    NoRootConfigured => netlog = <<>>

\* C22 (as claimed): with tls and ignore_invalid set and no root certificate
\* configured, create_connection does not ask for a root certificate and
\* the connection to a reachable server with a self-signed certificate is
\* established.
C22_BypassNeedsNoRoot ==
    (/\ NoRootConfigured
     /\ settings.ignore_invalid
     /\ settings.server_cert = "untrusted")
    => /\ connResult # "Err_no_root_certificate"
       /\ connPc = "done" =>
             connResult \in {"Tls", "Err_host_missing", "Err_port_missing", "Err_connect",
                             "Err_client_config", "Err_server_name", "Err_handshake"}

\* The destination is opened by the step that leaves "init"; a task that has
\* left it never opens the destination again, and one that has ended stays
\* ended, writes nothing and resolves nothing.
OpenedOnce ==
    /\ taskPc # "init" => taskPc' # "init"
    /\ taskPc \in Terminal =>
          /\ taskPc' = taskPc
          /\ taskResult' = taskResult
          /\ wlog' = wlog
          /\ \A i \in Items : ack[i] \in {"ok", "err", "dropped"} => ack'[i] = ack[i]

PublishFrame ==
    \A p \in Pubs :
        pubq'[p] # pubq[p] =>
            /\ \E r \in CotIds :
                  /\ cots[r].live
                  /\ cots[r].publish_sender = p
                  /\ pubq'[p] = Append(pubq[p], [cots[r] EXCEPT !.publish_sender = "None"])
            /\ \A q \in Pubs \ {p} : pubq'[q] = pubq[q]

\* What create_cot and copy_cot have just returned.
Bound ==
    /\ lastOp.op = "create_cot" => cots[lastOp.dst].publish_sender = lastOp.pub
    /\ lastOp.op = "copy_cot" =>
          /\ cots[lastOp.dst].publish_sender = lastOp.pub
          /\ cots[lastOp.dst].data = cots[lastOp.src].data
    /\ (lastOp.op = "publish" /\ lastOp.res = "Ok") =>
          /\ lastOp.pub = cots[lastOp.src].publish_sender
          /\ pubq[lastOp.pub] # <<>>
          /\ pubq[lastOp.pub][Len(pubq[lastOp.pub])].data = cots[lastOp.src].data

\* C24: a record returned by create_cot on a publisher holds that publisher's
\* producer; a record returned by copy_cot on P holds P's producer, whatever
\* the original held, and the original's field values; publishing a record
\* appends to the queue of the publisher it is bound to and to no other.
C24_RecordBinding ==
    /\ []Bound
    /\ [][PublishFrame]_vars

\* A record created by P was copied by Q and the copy published: the item
\* is on Q's queue, P's queue is empty.
C24_Witness ==
    /\ lastOp.op = "publish"
    /\ lastOp.res = "Ok"
    /\ lastOp.pub = "Q"
    /\ lastOp.src = 2
    /\ cots[1].publish_sender = "P"
    /\ cots[2].data = cots[1].data
    /\ pubq["P"] = <<>>
    /\ Len(pubq["Q"]) = 1

\* ------------------------------------------------- C25 .. C30 (task loop)
\* Item i has been taken from the queue and the task is through with it: it
\* left a trace in the log and is no longer the item being written.
Discarded(i) == (\E k \in 1..Len(wlog) : wlog[k].id = i) /\ cur # i

\* C25: every item that carries an acknowledgement slot and was taken by the
\* task has, once the task is through with it, a slot that holds an explicit
\* value (success or failure); it is never discarded with the slot unresolved,
\* on either transport, after a successful write, a failed write or a failed
\* encode.
C25_SlotResolvedBeforeDiscard ==
    \A i \in Items :
        (ack[i] # "none" /\ Discarded(i)) => ack[i] \in {"ok", "err"}

\* No item is buffered twice, the item being written is no longer buffered,
\* an item the task is through with is not buffered again, and the log holds
\* at most one attempt per item and step.
TakenOnce ==
    /\ \A k, l \in 1..Len(queue) : k # l => queue[k] # queue[l]
    /\ cur # 0 => cur \notin SeqToSet(queue)
    /\ \A i \in Items : Discarded(i) => i \notin SeqToSet(queue)
    /\ \A k, l \in 1..Len(wlog) :
           (k # l /\ wlog[k].id # 0 /\ wlog[k].id = wlog[l].id)
               => wlog[k].step # wlog[l].step

\* Positions of the task at which it touches the transport or skips an item.
TaskWrites == {"handshake", "recv", "send_to", "magic", "varint", "payload"}

\* A step that adds to the log is a step of the task: it adds one entry, for
\* the one item the task holds (or the handshake), and it is not a step of a
\* producer or of the publisher handle.
OneWriter ==
    wlog' # wlog =>
        /\ taskPc \in TaskWrites
        /\ \E e \in [id : Items \cup {0}, step : WriteSteps \cup {"handshake", "encode"},
                     ok : BOOLEAN] :
              /\ wlog' = Append(wlog, e)
              /\ e.id = CASE taskPc = "handshake" -> 0
                          [] taskPc = "recv" -> Head(queue)
                          [] OTHER -> cur
              /\ e.step = "encode" <=> taskPc = "recv"
        /\ UNCHANGED <<call, waiters, admitted, handleVars, records>>

\* C26: every item is taken from the queue at most once and gets at most one
\* write attempt per write step (no retry, no duplicate delivery); writes
\* happen one at a time and only in steps of the publisher task.
C26_SingleAttempt ==
    /\ []TakenOnce
    /\ [][OneWriter]_vars

\* C26 witness: on multicast the first datagram failed and was not sent
\* again, the second item was taken and sent, nothing is left buffered.
C26_Witness ==
    /\ transport = "multicast"
    /\ wlog = <<Entry(1, "datagram", FALSE), Entry(2, "datagram", TRUE)>>
    /\ queue = <<>>
    /\ taskPc = "recv"
    /\ admitted = <<1, 2>>

\* Item i was taken by the task: it was encoded (or failed to encode) and, if
\* encoded, at least its first write was attempted.
Processed(i) ==
    \E k \in 1..Len(wlog) :
        wlog[k].id = i /\ wlog[k].step \in WriteSteps \cup {"encode"}

\* C27 (as claimed): when every producer handle is gone and the task has been
\* stopped by the drop, every item the queue had accepted was taken and got
\* its write attempt; none was discarded unprocessed.
C27_DrainThenExit ==
    (allSendersDropped /\ taskPc = "cancelled")
        => \A i \in SeqToSet(admitted) : Processed(i)

\* C28 (as claimed): a task stopped by the destruction of the publisher was
\* never stopped between the writes of one item: every item whose magic-byte
\* write was attempted also had its payload write attempted.
C28_NoMidItemCancel ==
    taskPc = "cancelled" =>
        \A i \in Items :
            (\E ok \in BOOLEAN : Wrote(i, "magic", ok))
                => (\E ok \in BOOLEAN : Wrote(i, "payload", ok))

\* Position of the first log entry of item i for a step (0 when there is none).
StepAt(i, step) ==
    IF \E k \in 1..Len(wlog) : wlog[k].id = i /\ wlog[k].step = step
    THEN CHOOSE k \in 1..Len(wlog) :
             /\ wlog[k].id = i /\ wlog[k].step = step
             /\ \A l \in 1..(k - 1) : ~(wlog[l].id = i /\ wlog[l].step = step)
    ELSE 0

\* C29 (as claimed): on a TAK-server publisher the writes of one item come in
\* the order magic byte, varint, payload, and the varint is attempted only
\* after the magic byte of that item was written successfully, the payload
\* only after magic byte and varint were.
C29_LaterStepNeedsEarlier ==
    transport = "takserver" =>
        \A i \in Items :
            /\ StepAt(i, "varint") # 0 =>
                  /\ StepAt(i, "magic") # 0
                  /\ StepAt(i, "magic") < StepAt(i, "varint")
                  /\ Wrote(i, "magic", TRUE)
            /\ StepAt(i, "payload") # 0 =>
                  /\ StepAt(i, "varint") # 0
                  /\ StepAt(i, "varint") < StepAt(i, "payload")
                  /\ Wrote(i, "varint", TRUE)

\* A step in which an item fails to encode: the log gains an "encode" entry.
EncodeFails ==
    /\ Len(wlog') = Len(wlog) + 1
    /\ wlog'[Len(wlog')].step = "encode"

\* What the task does with an item that fails to encode: the loop goes on
\* (the task keeps receiving and has returned nothing), the item is gone from
\* the queue and the items behind it stay buffered, in order.
SkipsItem ==
    EncodeFails =>
        /\ taskPc = "recv" /\ taskPc' = "recv"
        /\ taskResult' = taskResult
        /\ cur' = cur
        /\ queue # <<>>
        /\ wlog'[Len(wlog')].id = Head(queue)
        /\ queue' = Tail(queue)

\* An item that failed to encode has no write entry and its slot, if it has
\* one, never received a value.
NothingSent ==
    \A i \in Items :
        Wrote(i, "encode", FALSE) =>
            /\ \A k \in 1..Len(wlog) : wlog[k].id = i => wlog[k].step = "encode"
            /\ ack[i] \notin {"ok", "err"}

\* C30: when an item fails to encode, nothing of it is written, no
\* acknowledgement value is sent for it, the task stays in its receive loop
\* and the items behind it are still taken and written.
C30_EncodeFailureSkips ==
    /\ []NothingSent
    /\ [][SkipsItem]_vars

\* C30 witness: checked item 1 failed to encode and got no value, the task
\* went on to send checked item 2 and acknowledged it.
C30_Witness ==
    /\ transport = "multicast"
    /\ wlog = <<Entry(1, "encode", FALSE), Entry(2, "datagram", TRUE)>>
    /\ ack[1] = "dropped"
    /\ ack[2] = "ok"
    /\ taskPc = "recv"

MsgPosition(m) == <<m.lat, m.lon, m.hae, m.ce, m.le>>
CotPosition(p) == <<p.lat, p.lng, p.hae, p.ce, p.le>>

\* A setter call changes the caller's record only; publish copies the record
\* as it is at that moment; the task stamps the message with the clock of
\* the moment it encodes.
SnapshotSteps ==
    /\ rec' # rec => (item' = item /\ message' = message)
    /\ (codecPc = "idle" /\ codecPc' = "queued") => item' = rec
    /\ (codecPc = "queued" /\ codecPc' = "encoded") =>
          (message'.send_time = now /\ message'.start_time = now)

\* The message carries the fields of the queued snapshot.
CarriesSnapshot ==
    codecPc = "encoded" =>
        /\ message.uid = item.uid
        /\ message.type = item.type
        /\ item.position.some => MsgPosition(message) = CotPosition(item.position.v)
        /\ message.contact = item.contact
        /\ item.xml_detail.some => message.xml_detail = item.xml_detail.v
        /\ message.precision_location = item.precision_location

\* C32: the queue item is a snapshot of the record at the publish call:
\* changing the record afterwards never changes identifier, type, position,
\* contact or detail of the queued item or of its message, while send and
\* start time are the clock at the moment the task encodes the item.
C32_SnapshotAtPublish ==
    /\ []CarriesSnapshot
    /\ [][SnapshotSteps]_vars

\* C32 witness: record changed after publish (uid and position), clock moved
\* on before the encode; the message has the published uid and the later time.
C32_Witness ==
    /\ codecPc = "encoded"
    /\ rec.uid # item.uid
    /\ rec.position # item.position
    /\ message.uid = item.uid
    /\ message.send_time # publishedAt
    /\ message.send_time = now

\* C33: the message carries lat, lon, hae, ce, le of the record's position,
\* or five zeros when the record has none; uid and type are the record's;
\* the protocol version pair is 2, 2.
C33_PositionFields ==
    codecPc = "encoded" =>
        /\ MsgPosition(message) =
              IF item.position.some THEN CotPosition(item.position.v)
              ELSE <<0, 0, 0, 0, 0>>
        /\ message.uid = item.uid /\ message.contact_uid = item.uid
        /\ message.type = item.type
        /\ message.min_proto_version = 2 /\ message.max_proto_version = 2

\* C33 witness: a record with a full position was encoded.
C33_Witness ==
    /\ codecPc = "encoded"
    /\ item.position = Some(FullPosition)
    /\ MsgPosition(message) = <<51, -2, 100, 5, 7>>

\* Present sub-records are carried with exactly their values; absent contact
\* and precision location are left out of the message.
PresentCarried ==
    /\ item.position.some => MsgPosition(message) = CotPosition(item.position.v)
    /\ item.xml_detail.some => message.xml_detail = item.xml_detail.v
    /\ item.contact.some => message.contact = Some(item.contact.v)
    /\ item.precision_location.some =>
          message.precision_location = Some(item.precision_location.v)
    /\ ~item.contact.some => ~message.contact.some
    /\ ~item.precision_location.some => ~message.precision_location.some

\* C34 (as claimed): an absent position is not sent as zeros and an absent
\* detail payload is not sent as an empty string.
C34_AbsentNeverZero ==
    codecPc = "encoded" =>
        /\ PresentCarried
        /\ ~item.position.some => MsgPosition(message) # <<0, 0, 0, 0, 0>>
        /\ ~item.xml_detail.some => message.xml_detail # ""

\* C34 (amended): absent contact and precision location are left out; an
\* absent position is carried as five zeros and an absent detail payload as
\* the empty string; whatever is present is carried with exactly its value.
C34_AbsentOmittedOrDefault ==
    codecPc = "encoded" =>
        /\ PresentCarried
        /\ ~item.position.some => MsgPosition(message) = <<0, 0, 0, 0, 0>>
        /\ ~item.xml_detail.some => message.xml_detail = ""

\* C34 witness: a record with none of the four optional parts was encoded.
C34_Witness ==
    /\ codecPc = "encoded"
    /\ ~item.position.some /\ ~item.xml_detail.some
    /\ ~item.contact.some /\ ~item.precision_location.some
    /\ ~message.contact.some /\ ~message.precision_location.some
    /\ message.lat = 0 /\ message.xml_detail = ""

\* C35 (as claimed): send_time = start_time and stale_time is send_time plus
\* the record's stale_time_ms, without wrap-around, so stale_time >=
\* send_time, and the addition never aborts the task.
C35_StaleAfterSend ==
    /\ codecPc # "panicked"
    /\ codecPc = "encoded" =>
          /\ message.send_time = message.start_time
          /\ ~add64(message.send_time, item.stale_time_ms).overflow
          /\ message.stale_time = add64(message.send_time, item.stale_time_ms).val
          /\ ge64(message.stale_time, message.send_time)

\* The checked call i is waiting for its acknowledgement and the task holds
\* its item, has terminated, or is being aborted.
AckDue(i) ==
    /\ call[i].state = "awaitAck"
    /\ cur = i \/ taskPc \in Terminal \/ abortRequested

\* A call that found its slot closed without a value returned an error.
DroppedIsError ==
    \A i \in Items :
        (call[i].state = "returned" /\ call[i].checked /\ ack[i] = "dropped")
            => call[i].res = "SendError_recv"

ServingEnded ==
    \/ taskPc \in Terminal
    \/ \E k \in 1..Len(wlog) : ~wlog[k].ok

\* An item of call i is on its way: buffered in the queue, or held by a
\* producer suspended on the full queue.
Outstanding(i) == i \in SeqToSet(queue) \/ call[i].state = "waiting"

\* C37: while the task serves and its writes succeed, every item the queue
\* holds is eventually taken and written, and every producer suspended on a
\* full queue eventually gets its item accepted and written as well.
C37_AcceptedIsWritten ==
    \A i \in Items : Outstanding(i) ~> (AllWritten(i) \/ ServingEnded)

\* C37 witness: with a queue of one slot the first item has been taken and
\* written while the second producer is still suspended; nothing has failed.
C37_Witness ==
    /\ capacity = 1
    /\ ~ServingEnded
    /\ \E i, j \in Items :
          /\ AllWritten(i)
          /\ call[j].state = "waiting"
          /\ waiters = <<j>>

\* Record r is alive and holds no queue producer.
Unbound(r) == cots[r].live /\ cots[r].publish_sender = "None"

\* Clone returns a record with the original's values and no producer, and
\* leaves the original as it was.
CloneUnbinds ==
    (lastOp'.op = "clone" /\ cots' # cots) =>
        /\ cots'[lastOp'.dst].live
        /\ cots'[lastOp'.dst].publish_sender = "None"
        /\ cots'[lastOp'.dst].data = cots[lastOp'.src].data
        /\ cots'[lastOp'.src] = cots[lastOp'.src]

\* A publish call on an unbound record returns the error; no queue and no
\* acknowledgement slot changes.
UnboundPublishFails ==
    \A r \in CotIds :
        (Unbound(r) /\ lastOp'.op = "publish" /\ lastOp'.src = r /\ cots' = cots) =>
            /\ lastOp'.res = "SendError_sender_not_set"
            /\ pubq' = pubq
            /\ ack' = ack
            /\ call' = call

\* An unbound record stays unbound; copy_cot of it returns another record,
\* which holds the producer of the publisher that copied it.
ReboundOnlyByCopy ==
    \A r \in CotIds :
        Unbound(r) =>
            /\ cots'[r].publish_sender = "None"
            /\ (lastOp'.op = "copy_cot" /\ lastOp'.src = r /\ cots' # cots) =>
                  cots'[lastOp'.dst].publish_sender = lastOp'.pub

\* C38: a clone of a bound record holds no producer and cloning leaves the
\* original's binding alone; every publish on an unbound record returns
\* SendError("Publish sender is not set") and enqueues nothing; only the
\* record copy_cot returns from it is bound again.
C38_CloneIsUnbound ==
    /\ [][CloneUnbinds]_vars
    /\ [][UnboundPublishFails]_vars
    /\ [][ReboundOnlyByCopy]_vars

\* C38 witness: record 1 is bound to P, its clone 2 has just failed to
\* publish although Q has made the bound copy 3 of it; both queues are empty.
C38_Witness ==
    /\ lastOp = Op("publish", "None", 2, 0, "SendError_sender_not_set")
    /\ cots[1].live /\ cots[1].publish_sender = "P"
    /\ Unbound(2)
    /\ cots[3].live /\ cots[3].publish_sender = "Q"
    /\ cots[2].data = cots[1].data /\ cots[3].data = cots[1].data
    /\ pubq = [p \in Pubs |-> <<>>]

\* The values the two tasks return: each is an Err(PublishError::SendError).
TaskErrors ==
    {"SendError_bind", "SendError_set_broadcast", "SendError_connect",
     "SendError_handshake", "SendError_magic", "SendError_size", "SendError_data"}

\* C39: a task that has returned has returned an error, a running task has no
\* result, and a check_connected call that found the task finished returned
\* an error, never Ok.
C39_TaskNeverSucceeds ==
    /\ taskPc = "done" => taskResult \in TaskErrors
    /\ taskPc \notin Terminal => taskResult = "none"
    /\ lastCheck.fin =>
          lastCheck.res \in {"ConnectionError_join", "ConnectionError_unknown",
                             "ConnectionError_already_completed"}

\* C39 witness: the payload write of a checked item failed, the task
\* returned that error, and check_connected joined it and returned an error.
C39_Witness ==
    /\ taskPc = "done"
    /\ taskResult = "SendError_data"
    /\ lastCheck.fin /\ lastCheck.joined
    /\ lastCheck.res = "ConnectionError_unknown"

\* blocking_publish / blocking_publish_checked starts as call i.
PublishStarts(i) == call[i].state = "idle" /\ call'[i].state # "idle"

\* A publish made on a live record after the handle was dropped, with the
\* task alive, is taken by the queue or waits for room: it is not refused.
AcceptedAfterDrop ==
    \A i \in Items :
        (~sender /\ taskPc \notin Terminal /\ PublishStarts(i)) =>
            \/ call'[i].state \in {"waiting", "awaitAck"}
            \/ call'[i] = Returned(FALSE, "Ok")

\* Dropping the handle leaves the task, the queue, the suspended producers
\* and the acknowledgement slots as they were, and requests no abort.
DropLeavesTask ==
    (sender /\ ~sender') =>
        /\ <<taskPc, cur, taskResult, wlog>>' = <<taskPc, cur, taskResult, wlog>>
        /\ <<queue, waiters, ack>>' = <<queue, waiters, ack>>
        /\ ~abortRequested'

\* C40: dropping the blocking handle does not touch the task; a publish on a
\* record that outlives the handle is still accepted while the task has not
\* terminated, and its item is written unless the task ends or a write fails.
C40_BridgeOutlivesHandle ==
    /\ [][DropLeavesTask]_vars
    /\ [][AcceptedAfterDrop]_vars
    /\ \A i \in Items :
          (~sender /\ Outstanding(i)) ~> (AllWritten(i) \/ ServingEnded)

\* C40 witness: an item the queue accepted after the handle was dropped has
\* been written in full; a record is alive and the task still runs.
C40_Witness ==
    /\ frontend = "blocking"
    /\ ~sender
    /\ records > 0
    /\ taskPc \notin Terminal
    /\ dropAt >= 0
    /\ \E i \in SeqToSet(admitted) : AdmitIdx(i) > dropAt /\ AllWritten(i)

====
